---- MODULE Spec2Model ----
(***************************************************************************)
(* The tab commands of the runner (tabsMethods.js): tabs.create,           *)
(* tabs.navigate, tabs.run, tabs.wait and tabs.waitForNewPage, as async    *)
(* handlers over a tab manager.  Each invocation is a process that runs    *)
(* from one suspension point (await) to the next in a single atomic step,  *)
(* as JavaScript's run-to-completion scheduling does.  The tab manager,    *)
(* the timers and the clock are the environment.                           *)
(***************************************************************************)
EXTENDS Integers, Sequences, FiniteSets, TLC

(* ------------------------------ bounds --------------------------------- *)

\* the clock advances at most MaxTicks times, by a step of TickSteps each time
MaxTicks == 3

\* wait() retries without a cap; the model follows it for MaxAttempts retries
MaxAttempts == 2

TickSteps == {500}

TimeoutChoices == {0, 500, 1500}

Inv == {1, 2}

(* --------------------------- JavaScript values ------------------------- *)

Str(s) == [type |-> "string", val |-> s]

Num(s) == [type |-> "number", val |-> s]

Obj(s) == [type |-> "object", val |-> s]

Undefined == [type |-> "undefined", val |-> "undefined"]

Null == [type |-> "object", val |-> "null"]

TypeOf(v) == v.type

Falsy == {Undefined, Null, Num("0"), Num("NaN"), Str(""), [type |-> "boolean", val |-> "false"]}

Truthy(v) == v \notin Falsy

\* const {reject} = outcome: a missing property reads as undefined
GetReject(o) == IF "reject" \in DOMAIN o THEN o.reject ELSE Undefined

(* ------------------------------ errors --------------------------------- *)

\* (messages are written with ' where the source has a backquote)

CONTENT_SCRIPT_ABORTED_ERROR == "AbortedExecution"

illegalArgumentError(message) == [name |-> "IllegalArgument", message |-> message]

newPageWaitTimeoutError(message) == [name |-> "NewPageWaitTimeout", message |-> message]

AbortedExecution == [name |-> CONTENT_SCRIPT_ABORTED_ERROR, message |-> "navigated away"]

OtherErrors == {[name |-> "Error", message |-> "boom"], [name |-> "TypeError", message |-> "x is not a function"]}

\* the decimal digits of a fraction given in thousandths, trailing zeros removed
FracDigits(m) ==
    IF m % 100 = 0 THEN ToString(m \div 100)
    ELSE IF m % 10 = 0 THEN ToString(m \div 100) \o ToString((m \div 10) % 10)
    ELSE ToString(m \div 100) \o ToString((m \div 10) % 10) \o ToString(m % 10)

\* the text of timeoutMs / 1000 for a non-negative integer timeoutMs
SecondsStringUndivided(timeoutMs) == ToString(timeoutMs)

SecondsString(timeoutMs) ==
    IF timeoutMs % 1000 = 0 THEN ToString(timeoutMs \div 1000)
    ELSE ToString(timeoutMs \div 1000) \o "." \o FracDigits(timeoutMs % 1000)

TimeoutMessage(timeoutMs) ==
    "Waiting for a new page timed out after " \o SecondsString(timeoutMs) \o " seconds"

(* ------------------------------- inputs -------------------------------- *)

TabNames == <<"t1", "t2", "t3">>

\* ids a caller may pass: a tab open from the start, a string that names no
\* tab until a tabs.create opens it, and non-strings
IdChoices == {Str("t1"), Str("t2"), Num("42"), Undefined}

CodeChoices == {Str("return 1"), Undefined}

ArgValue == Obj("arg")

\* URLs as the characters the regular expression reads
Chars(u) ==
    CASE u = "http://a"  -> <<"h","t","t","p",":","/","/","a">>
      [] u = "https://a" -> <<"h","t","t","p","s",":","/","/","a">>
      [] u = "ftp://a"   -> <<"f","t","p",":","/","/","a">>
      [] u = "httpx://a" -> <<"h","t","t","p","x",":","/","/","a">>
      [] u = "xhttp://a" -> <<"x","h","t","t","p",":","/","/","a">>
      [] OTHER           -> <<>>

UrlChoices == {Str("http://a"), Str("https://a"), Str("ftp://a"), Str("httpx://a"),
               Str("xhttp://a"), Undefined}

HasPrefix(cs, p) == Len(cs) >= Len(p) /\ SubSeq(cs, 1, Len(p)) = p

\* /^https?:\/\//.test(url)
AllowedUrlSchemePrefixOnly(cs) == HasPrefix(cs, <<"h","t","t","p">>)

ALLOWED_URL_REGEXP(cs) ==
    \/ HasPrefix(cs, <<"h","t","t","p",":","/","/">>)
    \/ HasPrefix(cs, <<"h","t","t","p","s",":","/","/">>)

\* what runContentScript may settle with
ScriptReturns ==
    { [resolve |-> Str("done")],
      [reject |-> Obj("script error")],
      [reject |-> Num("0")] }

ScriptThrows == {AbortedExecution} \cup OtherErrors

Returned(v) == [kind |-> "return", value |-> v]

Thrown(e) == [kind |-> "throw", value |-> e]

NoResult == [kind |-> "none"]

ScriptSettlements == {Returned(v) : v \in ScriptReturns} \cup {Thrown(e) : e \in ScriptThrows}

NavigateSettlements == {Returned(Obj("navigated")), Thrown([name |-> "Error", message |-> "boom"])}

NoParams == [id |-> Undefined, code |-> Undefined, arg |-> Undefined, url |-> Undefined, timeoutMs |-> 0]

NoTimer == [state |-> "none"]

(* ------------------------------- state --------------------------------- *)

VARIABLES
    tabs,                      \* tab manager: ids of the tracked tabs
    now,                       \* Date.now(), in ms
    cmd,                       \* per invocation: the command called
    params,                    \* per invocation: the parameter object
    pc,                        \* per invocation: "idle", the await it is suspended at, or "done"
    calls,                     \* per invocation: tab-manager methods invoked, in order
    responses,                 \* per invocation: what the awaited tab-manager calls settled with, in order
    result,                    \* per invocation: how the returned promise settled
    attemptNumber,             \* wait: the running attempt
    waitMetadata,              \* wait: the frozen {waitBeginTime}
    waitForNewContentPromise,  \* waitForNewPage: "none", "pending", "resolved"
    timer,                     \* waitForNewPage: the delay(timeoutMs) timer
    scriptDoneTime,            \* waitForNewPage: when runContentScript settled (-1: not yet)
    order,                     \* waitForNewPage: "script", "content", "timer" in the order they happened
    tabsAtCall                 \* per invocation: the tracked tabs when the command was called

vars == <<tabs, now, cmd, params, pc, calls, responses, result, attemptNumber,
          waitMetadata, waitForNewContentPromise, timer, scriptDoneTime, order, tabsAtCall>>

hasTab(id) == id.val \in tabs

Init ==
    /\ tabs = {"t1"}
    /\ now = 0
    /\ cmd = [i \in Inv |-> "none"]
    /\ params = [i \in Inv |-> NoParams]
    /\ pc = [i \in Inv |-> "idle"]
    /\ calls = [i \in Inv |-> <<>>]
    /\ responses = [i \in Inv |-> <<>>]
    /\ result = [i \in Inv |-> NoResult]
    /\ attemptNumber = [i \in Inv |-> 0]
    /\ waitMetadata = [i \in Inv |-> [waitBeginTime |-> -1]]
    /\ waitForNewContentPromise = [i \in Inv |-> "none"]
    /\ timer = [i \in Inv |-> NoTimer]
    /\ scriptDoneTime = [i \in Inv |-> -1]
    /\ order = [i \in Inv |-> <<>>]
    /\ tabsAtCall = [i \in Inv |-> {}]

\* the dispatcher calls a handler; the invocations are interchangeable, so they
\* are called in the order of their numbers
Call(i, command) ==
    /\ pc[i] = "idle"
    /\ \A j \in Inv : j < i => pc[j] # "idle"
    /\ cmd' = [cmd EXCEPT ![i] = command]
    /\ tabsAtCall' = [tabsAtCall EXCEPT ![i] = tabs]

\* typeof id !== 'string' || !tabManager.hasTab(id)
InvalidIdTypeOnly(id) == TypeOf(id) # "string"

InvalidId(id) == TypeOf(id) # "string" \/ ~hasTab(id)

\* typeof code !== 'string'
InvalidCodeNever(code) == FALSE

InvalidCode(code) == TypeOf(code) # "string"

\* the hasTab query the test above makes: only for a string
HasTabCalls(id) == IF TypeOf(id) = "string" THEN <<[method |-> "hasTab", id |-> id]>> ELSE <<>>

\* the async function settles its promise
Finish(i, r) ==
    /\ pc' = [pc EXCEPT ![i] = "done"]
    /\ result' = [result EXCEPT ![i] = r]

\* throw illegalArgumentError(message) out of the validation
Reject(i, id, message) ==
    /\ calls' = [calls EXCEPT ![i] = HasTabCalls(id)]
    /\ Finish(i, Thrown(illegalArgumentError(message)))

(* ------------------------------ tabs.create ---------------------------- *)

\* tabManager.createTab(): the arguments passed, whatever the caller's parameter object p holds
CreateTabForwardsUrl(p) == IF p.url = Undefined THEN <<>> ELSE <<p.url>>

CreateTabArgs(p) == <<>>

createTab(i) ==
    /\ Call(i, "tabs.create")
    /\ \E id \in IdChoices, url \in {Undefined, Str("http://a")} :
          params' = [params EXCEPT ![i] = [NoParams EXCEPT !.id = id, !.url = url]]
    /\ calls' = [calls EXCEPT ![i] = <<[method |-> "createTab", args |-> CreateTabArgs(params'[i])]>>]
    /\ pc' = [pc EXCEPT ![i] = "awaitCreateTab"]
    /\ UNCHANGED <<tabs, now, responses, result, attemptNumber, waitMetadata,
                   waitForNewContentPromise, timer, scriptDoneTime, order>>

\* the tab manager opens the tab (or fails); createTab returns tab.id
createTabSettles(i) ==
    /\ pc[i] = "awaitCreateTab"
    /\ \/ \E k \in 1..Len(TabNames) :
             /\ TabNames[k] \notin tabs
             /\ \A j \in 1..(k - 1) : TabNames[j] \in tabs
             /\ tabs' = tabs \cup {TabNames[k]}
             /\ responses' = [responses EXCEPT ![i] = Append(@, Returned([id |-> Str(TabNames[k])]))]
             /\ Finish(i, Returned(responses'[i][1].value.id))
       \/ /\ responses' = [responses EXCEPT ![i] =
                              Append(@, Thrown([name |-> "Error", message |-> "boom"]))]
          /\ Finish(i, responses'[i][1])
          /\ UNCHANGED tabs
    /\ UNCHANGED <<now, cmd, params, calls, attemptNumber, waitMetadata,
                   waitForNewContentPromise, timer, scriptDoneTime, order, tabsAtCall>>

(* ----------------------------- tabs.navigate --------------------------- *)

navigateTab(i) ==
    /\ Call(i, "tabs.navigate")
    /\ \E id \in IdChoices, url \in UrlChoices :
          /\ params' = [params EXCEPT ![i] = [NoParams EXCEPT !.id = id, !.url = url]]
          /\ IF InvalidId(id)
             THEN Reject(i, id, "tabs.navigate(): invalid argument 'id'")
             ELSE IF TypeOf(url) # "string" \/ ~ALLOWED_URL_REGEXP(Chars(url.val))
             THEN Reject(i, id, "tabs.navigate(): 'url' argument must be an absolute HTTP URL")
             ELSE /\ calls' = [calls EXCEPT ![i] =
                                 HasTabCalls(id) \o <<[method |-> "navigateTab", id |-> id, url |-> url]>>]
                  /\ pc' = [pc EXCEPT ![i] = "awaitNavigateTab"]
                  /\ UNCHANGED result
    /\ UNCHANGED <<tabs, now, responses, attemptNumber, waitMetadata,
                   waitForNewContentPromise, timer, scriptDoneTime, order>>

\* return await tabManager.navigateTab(id, url)
navigateTabSettles(i) ==
    /\ pc[i] = "awaitNavigateTab"
    /\ \E s \in NavigateSettlements :
          /\ responses' = [responses EXCEPT ![i] = Append(@, s)]
          /\ Finish(i, s)
    /\ UNCHANGED <<tabs, now, cmd, params, calls, attemptNumber, waitMetadata,
                   waitForNewContentPromise, timer, scriptDoneTime, order, tabsAtCall>>

(* -------------------------------- tabs.run ----------------------------- *)

\* tabManager.runContentScript(id, code, {arg, metadata})
RunScriptCall(id, code, metadata) ==
    [method |-> "runContentScript", id |-> id, code |-> code, arg |-> ArgValue, metadata |-> metadata]

run(i) ==
    /\ Call(i, "tabs.run")
    /\ \E id \in IdChoices, code \in CodeChoices :
          /\ params' = [params EXCEPT ![i] = [NoParams EXCEPT !.id = id, !.code = code, !.arg = ArgValue]]
          /\ IF InvalidId(id)
             THEN Reject(i, id, "tabs.run(): invalid argument 'id'")
             ELSE IF InvalidCode(code)
             THEN Reject(i, id, "tabs.run(): invalid argument 'code'")
             ELSE /\ calls' = [calls EXCEPT ![i] =
                                 HasTabCalls(id) \o <<RunScriptCall(id, code, [runBeginTime |-> now])>>]
                  /\ pc' = [pc EXCEPT ![i] = "awaitRun"]
                  /\ UNCHANGED result
    /\ UNCHANGED <<tabs, now, responses, attemptNumber, waitMetadata,
                   waitForNewContentPromise, timer, scriptDoneTime, order>>

\* return await tabManager.runContentScript(...): the settlement as it is
RunSwallowsAbort(s) ==
    IF s.kind = "throw" /\ s.value.name = CONTENT_SCRIPT_ABORTED_ERROR
    THEN Returned([reject |-> Null])
    ELSE s

RunSettlement(s) == s

runSettles(i) ==
    /\ pc[i] = "awaitRun"
    /\ \E s \in ScriptSettlements :
          /\ responses' = [responses EXCEPT ![i] = Append(@, s)]
          /\ Finish(i, RunSettlement(s))
    /\ UNCHANGED <<tabs, now, cmd, params, calls, attemptNumber, waitMetadata,
                   waitForNewContentPromise, timer, scriptDoneTime, order, tabsAtCall>>

(* -------------------------------- tabs.wait ---------------------------- *)

\* Object.assign({attemptNumber, runBeginTime: Date.now()}, waitMetadata)
AttemptMetadataRestamped(n, wm) ==
    [attemptNumber |-> n, runBeginTime |-> now, waitBeginTime |-> now]

AttemptMetadata(n, wm) ==
    [attemptNumber |-> n, runBeginTime |-> now, waitBeginTime |-> wm.waitBeginTime]

\* the synchronous part of attempt(n): build the metadata, call runContentScript
\* and suspend at the await (params' and waitMetadata' are the closure's id, code, waitMetadata)
attemptSharedCounter(i, n, earlier) ==
    /\ attemptNumber' = [j \in Inv |-> n]
    /\ calls' = [calls EXCEPT ![i] =
                   earlier \o <<RunScriptCall(params'[i].id, params'[i].code,
                                              AttemptMetadata(n, waitMetadata'[i]))>>]
    /\ pc' = [pc EXCEPT ![i] = "awaitAttempt"]

attempt(i, n, earlier) ==
    /\ attemptNumber' = [attemptNumber EXCEPT ![i] = n]
    /\ calls' = [calls EXCEPT ![i] =
                   earlier \o <<RunScriptCall(params'[i].id, params'[i].code,
                                              AttemptMetadata(n, waitMetadata'[i]))>>]
    /\ pc' = [pc EXCEPT ![i] = "awaitAttempt"]

wait(i) ==
    /\ Call(i, "tabs.wait")
    /\ UNCHANGED <<tabs, now, responses, waitForNewContentPromise, timer, scriptDoneTime, order>>
    /\ \E id \in IdChoices, code \in CodeChoices :
          /\ params' = [params EXCEPT ![i] = [NoParams EXCEPT !.id = id, !.code = code, !.arg = ArgValue]]
          /\ IF InvalidId(id)
             THEN /\ Reject(i, id, "tabs.wait(): invalid argument 'id'")
                  /\ UNCHANGED <<attemptNumber, waitMetadata>>
             ELSE IF InvalidCode(code)
             THEN /\ Reject(i, id, "tabs.wait(): invalid argument 'code'")
                  /\ UNCHANGED <<attemptNumber, waitMetadata>>
             ELSE /\ waitMetadata' = [waitMetadata EXCEPT ![i] = [waitBeginTime |-> now]]
                  /\ attempt(i, 0, HasTabCalls(id))
                  /\ UNCHANGED result

\* err.name === CONTENT_SCRIPT_ABORTED_ERROR in the catch of attempt
RetriesOnAnyError(err) == TRUE

RetriesNever(err) == FALSE

RetriesOn(err) == err.name = CONTENT_SCRIPT_ABORTED_ERROR

\* return await tabManager.runContentScript(...) in attempt: the outcome as it is
AttemptReturnsRejectOnly(outcome) == Returned([reject |-> GetReject(outcome)])

AttemptReturns(outcome) == Returned(outcome)

\* the running attempt's runContentScript settles: return the outcome, retry
\* on CONTENT_SCRIPT_ABORTED_ERROR, rethrow anything else
attemptSettles(i) ==
    /\ pc[i] = "awaitAttempt"
    /\ UNCHANGED <<tabs, now, cmd, params, waitMetadata,
                   waitForNewContentPromise, timer, scriptDoneTime, order, tabsAtCall>>
    /\ \E s \in ScriptSettlements :
          /\ responses' = [responses EXCEPT ![i] = Append(@, s)]
          /\ IF s.kind = "return"
             THEN /\ Finish(i, AttemptReturns(s.value))
                  /\ UNCHANGED <<calls, attemptNumber>>
             ELSE IF RetriesOn(s.value)
             THEN /\ attemptNumber[i] < MaxAttempts
                  /\ attempt(i, attemptNumber[i] + 1, calls[i])
                  /\ UNCHANGED result
             ELSE /\ Finish(i, Thrown(s.value))
                  /\ UNCHANGED <<calls, attemptNumber>>

(* --------------------------- tabs.waitForNewPage ----------------------- *)

\* delay(ms), called at time t: a timer that fires no earlier than t + ms
delay(ms, t) == [state |-> "pending", started |-> t, deadline |-> t + ms]

\* lines 55-57: observe first, then start the script, with no await in between
RunThenObserve(id, code) ==
    <<RunScriptCall(id, code, [runBeginTime |-> now]), [method |-> "waitForNewContent", id |-> id]>>

ObserveThenRun(id, code) ==
    <<[method |-> "waitForNewContent", id |-> id], RunScriptCall(id, code, [runBeginTime |-> now])>>

waitForNewPage(i) ==
    /\ Call(i, "tabs.waitForNewPage")
    /\ \E id \in IdChoices, code \in CodeChoices, timeoutMs \in TimeoutChoices :
          /\ params' = [params EXCEPT ![i] = [NoParams EXCEPT !.id = id, !.code = code,
                                                 !.arg = ArgValue, !.timeoutMs = timeoutMs]]
          /\ IF InvalidId(id)
             THEN /\ Reject(i, id, "tabs.run(): invalid argument 'id'")
                  /\ UNCHANGED waitForNewContentPromise
             ELSE IF InvalidCode(code)
             THEN /\ Reject(i, id, "tabs.run(): invalid argument 'code'")
                  /\ UNCHANGED waitForNewContentPromise
             ELSE /\ waitForNewContentPromise' = [waitForNewContentPromise EXCEPT ![i] = "pending"]
                  /\ calls' = [calls EXCEPT ![i] = HasTabCalls(id) \o ObserveThenRun(id, code)]
                  /\ pc' = [pc EXCEPT ![i] = "awaitScript"]
                  /\ UNCHANGED result
    /\ UNCHANGED <<tabs, now, responses, attemptNumber, waitMetadata, timer, scriptDoneTime, order>>

\* when delay(timeoutMs) is called: after the script, line 73
TimerStartAtCall(i) == calls[i][Len(calls[i])].metadata.runBeginTime

TimerStart(i) == now

\* the promise raced at line 72 is the one made at line 55, before the script
\* ran: new content seen since then has resolved it
SignalDuringScriptMissed(i) == FALSE

AlreadyObserved(i) == waitForNewContentPromise[i] = "resolved"

\* Promise.race([waitForNewContentPromise, delay(timeoutMs).then(reject)]) and the
\* await of it: a promise that is already resolved wins at once, before any timer
race(i) ==
    /\ timer' = [timer EXCEPT ![i] = delay(params[i].timeoutMs, TimerStart(i))]
    /\ IF AlreadyObserved(i)
       THEN Finish(i, Returned([reject |-> Null]))
       ELSE /\ pc' = [pc EXCEPT ![i] = "awaitRace"]
            /\ UNCHANGED result

\* if (reject) on the destructured outcome, line 59
RejectedAlways(outcome) == TRUE

Rejected(outcome) == Truthy(GetReject(outcome))

\* err.name !== CONTENT_SCRIPT_ABORTED_ERROR in the catch, line 65
RethrowsNothing(err) == FALSE

RethrowsEverything(err) == TRUE

Rethrows(err) == err.name # CONTENT_SCRIPT_ABORTED_ERROR

\* runContentScript settles: lines 57-68, then the race of lines 71-76
scriptSettles(i) ==
    /\ pc[i] = "awaitScript"
    /\ scriptDoneTime' = [scriptDoneTime EXCEPT ![i] = now]
    /\ order' = [order EXCEPT ![i] = Append(@, "script")]
    /\ \E s \in ScriptSettlements :
          /\ responses' = [responses EXCEPT ![i] = Append(@, s)]
          /\ IF s.kind = "return"
             THEN IF Rejected(s.value)
                  THEN /\ Finish(i, Returned([reject |-> GetReject(s.value)]))
                       /\ UNCHANGED timer
                  ELSE race(i)
             ELSE IF Rethrows(s.value)
                  THEN /\ Finish(i, Thrown(s.value))
                       /\ UNCHANGED timer
                  ELSE race(i)
    /\ UNCHANGED <<tabs, now, cmd, params, calls, attemptNumber, waitMetadata,
                   waitForNewContentPromise, tabsAtCall>>

\* the await of the race, lines 71-76, is still pending: only then does a
\* settlement of one of the raced promises continue the function
RaceUndecidedOrTimedOut(i) ==
    \/ pc[i] = "awaitRace"
    \/ pc[i] = "done" /\ result[i].kind = "throw" /\ result[i].value.name = "NewPageWaitTimeout"

RaceUndecided(i) == pc[i] = "awaitRace"

\* the tab manager observes new content in the tab: the observation resolves,
\* and a race that is still undecided is won by it (line 78)
newContent(i) ==
    /\ waitForNewContentPromise[i] = "pending"
    /\ waitForNewContentPromise' = [waitForNewContentPromise EXCEPT ![i] = "resolved"]
    /\ order' = [order EXCEPT ![i] = Append(@, "content")]
    /\ IF RaceUndecided(i)
       THEN Finish(i, Returned([reject |-> Null]))
       ELSE UNCHANGED <<pc, result>>
    /\ UNCHANGED <<tabs, now, cmd, params, calls, responses, attemptNumber, waitMetadata,
                   timer, scriptDoneTime, tabsAtCall>>

\* the delay(timeoutMs) timer fires: lines 73-75 reject the race if it is undecided
timerFires(i) ==
    /\ timer[i].state = "pending"
    /\ now >= timer[i].deadline
    /\ timer' = [timer EXCEPT ![i].state = "fired"]
    /\ order' = [order EXCEPT ![i] = Append(@, "timer")]
    /\ IF RaceUndecided(i)
       THEN Finish(i, Thrown(newPageWaitTimeoutError(TimeoutMessage(params[i].timeoutMs))))
       ELSE UNCHANGED <<pc, result>>
    /\ UNCHANGED <<tabs, now, cmd, params, calls, responses, attemptNumber, waitMetadata,
                   waitForNewContentPromise, scriptDoneTime, tabsAtCall>>

(* ------------------------------- clock --------------------------------- *)

Tick ==
    /\ \E d \in TickSteps : now \div d < MaxTicks /\ now' = now + d
    /\ UNCHANGED <<tabs, cmd, params, pc, calls, responses, result, attemptNumber,
                   waitMetadata, waitForNewContentPromise, timer, scriptDoneTime, order, tabsAtCall>>

Next ==
    \/ \E i \in Inv : createTab(i)
    \/ \E i \in Inv : createTabSettles(i)
    \/ \E i \in Inv : navigateTab(i)
    \/ \E i \in Inv : navigateTabSettles(i)
    \/ \E i \in Inv : run(i)
    \/ \E i \in Inv : runSettles(i)
    \/ \E i \in Inv : wait(i)
    \/ \E i \in Inv : attemptSettles(i)
    \/ \E i \in Inv : waitForNewPage(i)
    \/ \E i \in Inv : scriptSettles(i)
    \/ \E i \in Inv : newContent(i)
    \/ \E i \in Inv : timerFires(i)
    \/ Tick

Spec == Init /\ [][Next]_vars

\* the state after two tabs.create commands have returned
InitTwoTabs ==
    /\ tabs = {"t1", "t2"}
    /\ now = 0
    /\ cmd = [i \in Inv |-> "none"]
    /\ params = [i \in Inv |-> NoParams]
    /\ pc = [i \in Inv |-> "idle"]
    /\ calls = [i \in Inv |-> <<>>]
    /\ responses = [i \in Inv |-> <<>>]
    /\ result = [i \in Inv |-> NoResult]
    /\ attemptNumber = [i \in Inv |-> 0]
    /\ waitMetadata = [i \in Inv |-> [waitBeginTime |-> -1]]
    /\ waitForNewContentPromise = [i \in Inv |-> "none"]
    /\ timer = [i \in Inv |-> NoTimer]
    /\ scriptDoneTime = [i \in Inv |-> -1]
    /\ order = [i \in Inv |-> <<>>]
    /\ tabsAtCall = [i \in Inv |-> {}]

\* wait() invocations alone, with a tab manager that settles every
\* runContentScript call an attempt is awaiting
NextWait ==
    \/ \E i \in Inv : wait(i)
    \/ \E i \in Inv : attemptSettles(i)
    \/ Tick

WaitSpec == Init /\ [][NextWait]_vars /\ \A i \in Inv : WF_vars(attemptSettles(i))

\* the same invocations with two tabs to name
WaitTwoTabsSpec == InitTwoTabs /\ [][NextWait]_vars

(* ------------------------------- claims -------------------------------- *)

RunCalls(i) == SelectSeq(calls[i], LAMBDA c : c.method = "runContentScript")

IsAbort(s) == s.kind = "throw" /\ s.value.name = CONTENT_SCRIPT_ABORTED_ERROR

Aborts(i) == Cardinality({k \in 1..Len(responses[i]) : IsAbort(responses[i][k])})

\* the id was not a string, or named no tracked tab, when the command was called
InvalidAtCall(i) == TypeOf(params[i].id) # "string" \/ params[i].id.val \notin tabsAtCall[i]

PassedValidation(i) == pc[i] # "idle" /\ ~InvalidAtCall(i) /\ TypeOf(params[i].code) = "string"

Position(seq, e) == IF \E k \in 1..Len(seq) : seq[k] = e
                    THEN CHOOSE k \in 1..Len(seq) : seq[k] = e
                    ELSE 0

\* C1: in a wait() invocation the attempts are numbered 0, 1, 2, ... in the order
\* of their runContentScript calls, every attempt carries the waitBeginTime of
\* the first, there is exactly one call more than there were aborts, and when
\* wait() has ended after k aborts and one other settlement the last call
\* carried attemptNumber = k.
C1_AttemptNumbering ==
    \A i \in Inv : cmd[i] = "tabs.wait" =>
        LET rc == RunCalls(i)
            n  == Len(responses[i])
        IN  /\ \A k \in 1..Len(rc) :
                  /\ rc[k].metadata.attemptNumber = k - 1
                  /\ rc[k].metadata.waitBeginTime = rc[1].metadata.waitBeginTime
            /\ Len(rc) > 0 => Len(rc) = Aborts(i) + 1
            /\ \A k \in 1..(n - 1) : IsAbort(responses[i][k])
            /\ (pc[i] = "done" /\ n > 0) =>
                  /\ ~IsAbort(responses[i][n])
                  /\ Aborts(i) = n - 1
                  /\ Len(rc) = Aborts(i) + 1
                  /\ rc[Len(rc)].metadata.attemptNumber = Aborts(i)

C1_Witness ==
    \E i \in Inv :
        /\ cmd[i] = "tabs.wait" /\ pc[i] = "done"
        /\ Len(responses[i]) = 3
        /\ Len(RunCalls(i)) = 3
        /\ RunCalls(i)[3].metadata.runBeginTime > RunCalls(i)[1].metadata.waitBeginTime

\* C2: when an attempt of wait() fails with an error that is not the abort
\* error, wait() has failed with that very error and that attempt's
\* runContentScript call is the last one the invocation makes.
C2_OtherErrorPropagates ==
    \A i \in Inv : cmd[i] = "tabs.wait" =>
        \A k \in 1..Len(responses[i]) :
            (responses[i][k].kind = "throw" /\ ~IsAbort(responses[i][k])) =>
                /\ k = Len(responses[i])
                /\ pc[i] = "done"
                /\ result[i] = Thrown(responses[i][k].value)
                /\ Len(RunCalls(i)) = k

C2_Witness ==
    \E i \in Inv :
        /\ cmd[i] = "tabs.wait" /\ pc[i] = "done"
        /\ Len(responses[i]) = 2
        /\ IsAbort(responses[i][1])
        /\ result[i] = Thrown([name |-> "TypeError", message |-> "x is not a function"])

\* C3: when an attempt of wait() settles with an outcome (resolve or reject
\* variant), wait() has returned exactly that outcome and that attempt's
\* runContentScript call is the last one: a reject outcome is not retried.
C3_FirstOutcomeReturned ==
    \A i \in Inv : cmd[i] = "tabs.wait" =>
        /\ \A k \in 1..Len(responses[i]) :
              responses[i][k].kind = "return" =>
                  /\ k = Len(responses[i])
                  /\ pc[i] = "done"
                  /\ result[i] = Returned(responses[i][k].value)
                  /\ Len(RunCalls(i)) = k
        /\ result[i].kind = "return" =>
              /\ Len(responses[i]) > 0
              /\ result[i] = responses[i][Len(responses[i])]

C3_Witness ==
    \E i \in Inv, j \in Inv :
        /\ cmd[i] = "tabs.wait" /\ pc[i] = "done"
        /\ Len(responses[i]) = 2
        /\ result[i] = Returned([reject |-> Obj("script error")])
        /\ cmd[j] = "tabs.wait" /\ pc[j] = "done"
        /\ result[j] = Returned([resolve |-> Str("done")])

\* C4: a waitForNewPage() invocation that passed validation has, at every
\* suspension point, called waitForNewContent(id) and then, directly after it,
\* runContentScript: neither call is ever seen without the other, so no new
\* content can be observed between the two.
C4_ObserveBeforeRun ==
    \A i \in Inv : cmd[i] = "tabs.waitForNewPage" =>
        LET c == calls[i]
        IN  /\ \A k \in 1..Len(c) :
                  c[k].method = "runContentScript" =>
                      k > 1 /\ c[k - 1].method = "waitForNewContent" /\ c[k - 1].id = c[k].id
            /\ \A k \in 1..Len(c) :
                  c[k].method = "waitForNewContent" =>
                      k < Len(c) /\ c[k + 1].method = "runContentScript"
            /\ PassedValidation(i) => Len(RunCalls(i)) = 1
            /\ waitForNewContentPromise[i] # "none" => Len(RunCalls(i)) = 1

C4_Witness ==
    \E i \in Inv :
        /\ cmd[i] = "tabs.waitForNewPage" /\ pc[i] = "awaitScript"
        /\ waitForNewContentPromise[i] = "resolved"
        /\ Len(calls[i]) = 3

IsWaitForNewPage(i) == cmd[i] = "tabs.waitForNewPage"

IsTimeout(r) == r.kind = "throw" /\ r.value.name = "NewPageWaitTimeout"

\* new content arrived, and no later than the moment the timer fired
ContentBeforeTimer(i) ==
    /\ Position(order[i], "content") > 0
    /\ \/ Position(order[i], "timer") = 0
       \/ Position(order[i], "content") < Position(order[i], "timer")

\* the timer fired, and no new content had arrived by then
TimerBeforeContent(i) ==
    /\ Position(order[i], "timer") > 0
    /\ \/ Position(order[i], "content") = 0
       \/ Position(order[i], "timer") < Position(order[i], "content")

\* C5: in waitForNewPage(), whenever the script settles with an outcome that
\* has a reject field, whatever its value, the call has returned {reject: value}
\* and no timer was started.
C5_RejectReturnedWhateverValue ==
    \A i \in Inv : (IsWaitForNewPage(i) /\ Len(responses[i]) = 1) =>
        LET s == responses[i][1]
        IN  (s.kind = "return" /\ "reject" \in DOMAIN s.value) =>
                /\ pc[i] = "done"
                /\ result[i] = Returned([reject |-> s.value.reject])
                /\ timer[i] = NoTimer

\* C6: in waitForNewPage(), when the script fails with the abort error the call
\* never fails with that error, and once new content has arrived with the timer
\* not fired before it, the call has returned {reject: null}.
C6_AbortSwallowed ==
    \A i \in Inv : (IsWaitForNewPage(i) /\ Len(responses[i]) = 1 /\ IsAbort(responses[i][1])) =>
        /\ ~(result[i].kind = "throw" /\ result[i].value.name = CONTENT_SCRIPT_ABORTED_ERROR)
        /\ timer[i] # NoTimer
        /\ ContentBeforeTimer(i) => (pc[i] = "done" /\ result[i] = Returned([reject |-> Null]))

C6_Witness ==
    \E i \in Inv :
        /\ IsWaitForNewPage(i) /\ Len(responses[i]) = 1 /\ IsAbort(responses[i][1])
        /\ order[i] = <<"script", "content">>
        /\ timer[i].state = "pending"
        /\ params[i].timeoutMs > 0
        /\ result[i] = Returned([reject |-> Null])

\* C7: in waitForNewPage(), while runContentScript is pending no timer exists
\* and the call has not settled; a timer that exists was started at the moment
\* the script settled and is due timeoutMs after that moment; and a call that
\* failed with the timeout error did so no earlier than timeoutMs after the
\* script settled.
C7_TimerStartsAfterScript ==
    \A i \in Inv : IsWaitForNewPage(i) =>
        /\ pc[i] = "awaitScript" => (timer[i] = NoTimer /\ result[i] = NoResult)
        /\ timer[i] # NoTimer =>
              /\ scriptDoneTime[i] >= 0
              /\ timer[i].started = scriptDoneTime[i]
              /\ timer[i].deadline = scriptDoneTime[i] + params[i].timeoutMs
        /\ IsTimeout(result[i]) =>
              /\ scriptDoneTime[i] >= 0
              /\ now >= scriptDoneTime[i] + params[i].timeoutMs

C7_Witness ==
    \E i \in Inv :
        /\ IsWaitForNewPage(i) /\ pc[i] = "done" /\ IsTimeout(result[i])
        /\ params[i].timeoutMs = 500
        /\ scriptDoneTime[i] - RunCalls(i)[1].metadata.runBeginTime >= 1000

\* the text of timeoutMs / 1000 for the timeouts of TimeoutChoices, written out
ExpectedSeconds(timeoutMs) ==
    CASE timeoutMs = 0    -> "0"
      [] timeoutMs = 500  -> "0.5"
      [] timeoutMs = 1500 -> "1.5"

\* C8: in waitForNewPage(), when the timer has fired (which it does no earlier
\* than timeoutMs after the script settled) and no new content had arrived by
\* then, the call has failed with NewPageWaitTimeout, and the message names
\* timeoutMs / 1000 seconds.
C8_TimeoutReported ==
    \A i \in Inv : (IsWaitForNewPage(i) /\ TimerBeforeContent(i)) =>
        /\ pc[i] = "done"
        /\ result[i].kind = "throw"
        /\ result[i].value.name = "NewPageWaitTimeout"
        /\ result[i].value.message =
              "Waiting for a new page timed out after "
              \o ExpectedSeconds(params[i].timeoutMs) \o " seconds"
        /\ now >= scriptDoneTime[i] + params[i].timeoutMs

C8_Witness ==
    \E i \in Inv, j \in Inv :
        /\ IsWaitForNewPage(i) /\ IsTimeout(result[i]) /\ params[i].timeoutMs = 1500
        /\ order[i] = <<"script", "timer", "content">>
        /\ IsWaitForNewPage(j) /\ IsTimeout(result[j]) /\ params[j].timeoutMs = 500

\* C9: in waitForNewPage(), when the script fails with an error that is not the
\* abort error, the call has failed with that very error and no timer was
\* started, whether or not new content has arrived.
C9_OtherErrorPropagates ==
    \A i \in Inv : (IsWaitForNewPage(i) /\ Len(responses[i]) = 1) =>
        LET s == responses[i][1]
        IN  (s.kind = "throw" /\ ~IsAbort(s)) =>
                /\ pc[i] = "done"
                /\ result[i] = Thrown(s.value)
                /\ timer[i] = NoTimer

C9_Witness ==
    \E i \in Inv, j \in Inv :
        /\ IsWaitForNewPage(i) /\ order[i] = <<"content", "script">>
        /\ result[i] = Thrown([name |-> "Error", message |-> "boom"])
        /\ IsWaitForNewPage(j) /\ order[j] = <<"script">>
        /\ result[j] = Thrown([name |-> "TypeError", message |-> "x is not a function"])

IsIllegalArgument(r) == r.kind = "throw" /\ r.value.name = "IllegalArgument"

TakesId(i) == cmd[i] \in {"tabs.navigate", "tabs.run", "tabs.wait", "tabs.waitForNewPage"}

\* C10 as stated: for every command, a call whose id is invalid has failed with
\* IllegalArgument and has invoked no method of the tab manager.
C10_InvalidIdEveryCommand ==
    \A i \in Inv : (pc[i] # "idle" /\ InvalidAtCall(i)) =>
        /\ pc[i] = "done"
        /\ IsIllegalArgument(result[i])
        /\ calls[i] = <<>>

\* C10, amended: for every command that takes an id (tabs.navigate, tabs.run,
\* tabs.wait, tabs.waitForNewPage), a call whose id is invalid has failed with
\* IllegalArgument and has invoked no method of the tab manager other than the
\* hasTab query that finds a string id unknown.
C10_InvalidIdRejected ==
    \A i \in Inv : (TakesId(i) /\ InvalidAtCall(i)) =>
        /\ pc[i] = "done"
        /\ IsIllegalArgument(result[i])
        /\ calls[i] = IF TypeOf(params[i].id) = "string"
                      THEN <<[method |-> "hasTab", id |-> params[i].id]>>
                      ELSE <<>>

C10_Witness ==
    \E i \in Inv, j \in Inv :
        /\ cmd[i] = "tabs.waitForNewPage" /\ params[i].id = Str("t2") /\ InvalidAtCall(i)
        /\ IsIllegalArgument(result[i])
        /\ cmd[j] = "tabs.wait" /\ params[j].id = Num("42")
        /\ IsIllegalArgument(result[j])

\* C11: a run() invocation that passed validation has called runContentScript
\* exactly once, with the caller's id, code and arg; it ends only when that
\* call settles, and then with exactly the settlement: the outcome as
\* returned, or the error as thrown, the abort error included.
C11_RunOnceUnmodified ==
    \A i \in Inv : (cmd[i] = "tabs.run" /\ PassedValidation(i)) =>
        /\ Len(RunCalls(i)) = 1
        /\ RunCalls(i)[1].id = params[i].id
        /\ RunCalls(i)[1].code = params[i].code
        /\ RunCalls(i)[1].arg = params[i].arg
        /\ Len(responses[i]) <= 1
        /\ pc[i] = "done" <=> Len(responses[i]) = 1
        /\ Len(responses[i]) = 1 => result[i] = responses[i][1]

C11_Witness ==
    \E i \in Inv, j \in Inv :
        /\ cmd[i] = "tabs.run" /\ pc[i] = "done"
        /\ result[i] = Thrown(AbortedExecution)
        /\ Len(RunCalls(i)) = 1
        /\ cmd[j] = "tabs.run" /\ pc[j] = "done"
        /\ result[j] = Returned([resolve |-> Str("done")])

\* the URLs of UrlChoices that match ^https?:// , written out
MatchingUrls == {Str("http://a"), Str("https://a")}

NavigateCalls(i) == SelectSeq(calls[i], LAMBDA c : c.method = "navigateTab")

\* C12: a navigateTab() call whose url is not a string or does not match
\* ^https?:// has failed with IllegalArgument and never invokes
\* tabManager.navigateTab; with a valid id and a matching url it has invoked
\* tabManager.navigateTab(id, url) exactly once and ends with exactly what
\* that call settled with.
C12_NavigateUrl ==
    \A i \in Inv : cmd[i] = "tabs.navigate" =>
        /\ params[i].url \notin MatchingUrls =>
              /\ pc[i] = "done"
              /\ IsIllegalArgument(result[i])
              /\ NavigateCalls(i) = <<>>
        /\ (params[i].url \in MatchingUrls /\ ~InvalidAtCall(i)) =>
              /\ NavigateCalls(i) =
                    <<[method |-> "navigateTab", id |-> params[i].id, url |-> params[i].url]>>
              /\ Len(responses[i]) <= 1
              /\ pc[i] = "done" <=> Len(responses[i]) = 1
              /\ Len(responses[i]) = 1 => result[i] = responses[i][1]

C12_Witness ==
    \E i \in Inv, j \in Inv :
        /\ cmd[i] = "tabs.navigate" /\ params[i].url = Str("https://a")
        /\ result[i] = Returned(Obj("navigated"))
        /\ cmd[j] = "tabs.navigate" /\ params[j].url = Str("httpx://a")
        /\ params[j].id = Str("t1")
        /\ IsIllegalArgument(result[j])

\* C13: a validation that failed on the id or on the code has produced an
\* IllegalArgument error whose message names the command that was called
\* (tabs.navigate, tabs.run, tabs.wait, tabs.waitForNewPage) and the argument
\* that failed.
C13_ErrorNamesCommandAndArgument ==
    \A i \in Inv : (TakesId(i) /\ pc[i] = "done" /\ IsIllegalArgument(result[i])) =>
        /\ InvalidAtCall(i) =>
              result[i].value.message = cmd[i] \o "(): invalid argument 'id'"
        /\ (~InvalidAtCall(i) /\ cmd[i] # "tabs.navigate") =>
              result[i].value.message = cmd[i] \o "(): invalid argument 'code'"

\* C14: whatever fields the caller passes to createTab (an id, a url), it
\* invokes tabManager.createTab with no arguments and no other method of the
\* tab manager, and when the tab manager opens the tab the result is the id of
\* that new tab.
C14_CreateTabTakesNoUrl ==
    \A i \in Inv : cmd[i] = "tabs.create" =>
        /\ calls[i] = <<[method |-> "createTab", args |-> <<>>]>>
        /\ pc[i] = "done" <=> Len(responses[i]) = 1
        /\ (pc[i] = "done" /\ responses[i][1].kind = "return") =>
              /\ result[i] = Returned(responses[i][1].value.id)
              /\ TypeOf(result[i].value) = "string"
              /\ result[i].value.val \in tabs \ tabsAtCall[i]
        /\ (pc[i] = "done" /\ responses[i][1].kind = "throw") =>
              result[i] = responses[i][1]

C14_Witness ==
    \E i \in Inv :
        /\ cmd[i] = "tabs.create" /\ pc[i] = "done"
        /\ params[i].url = Str("http://a")
        /\ params[i].id = Str("t1")
        /\ result[i] = Returned(Str("t2"))

\* C15: in waitForNewPage(), when new content arrived while the script was
\* still running and the script then settled with a resolve outcome or with
\* the abort error, the call has returned {reject: null}, whatever timeoutMs
\* is and whether or not the timer fires afterwards.
C15_SignalDuringScriptKept ==
    \A i \in Inv :
        ( /\ IsWaitForNewPage(i)
          /\ Len(order[i]) >= 2 /\ order[i][1] = "content" /\ order[i][2] = "script"
          /\ \/ IsAbort(responses[i][1])
             \/ responses[i][1].kind = "return" /\ "resolve" \in DOMAIN responses[i][1].value )
        => /\ pc[i] = "done"
           /\ result[i] = Returned([reject |-> Null])

C15_Witness ==
    \E i \in Inv, j \in Inv :
        /\ IsWaitForNewPage(i) /\ order[i] = <<"content", "script", "timer">>
        /\ params[i].timeoutMs = 0
        /\ responses[i][1] = Returned([resolve |-> Str("done")])
        /\ result[i] = Returned([reject |-> Null])
        /\ IsWaitForNewPage(j) /\ order[j] = <<"content", "script">>
        /\ IsAbort(responses[j][1])
        /\ scriptDoneTime[j] > RunCalls(j)[1].metadata.runBeginTime

\* C16: a wait() invocation whose attempts have all failed with the abort error
\* has neither ended nor failed: it is awaiting one more attempt, however many
\* aborts there were; and when the tab manager settles every runContentScript
\* call and at some attempt answers with something other than the abort error
\* (here: at the latest after MaxAttempts aborts), wait() eventually ends.
C16_NoCapAndTermination ==
    /\ [](\A i \in Inv :
            ( /\ cmd[i] = "tabs.wait"
              /\ Len(responses[i]) > 0
              /\ \A k \in 1..Len(responses[i]) : IsAbort(responses[i][k]) )
            => /\ pc[i] = "awaitAttempt"
               /\ result[i] = NoResult
               /\ Len(RunCalls(i)) = Len(responses[i]) + 1)
    /\ \A i \in Inv : (pc[i] = "awaitAttempt") ~> (pc[i] = "done")

C16_Witness ==
    \E i \in Inv :
        /\ cmd[i] = "tabs.wait" /\ pc[i] = "awaitAttempt"
        /\ Len(responses[i]) = MaxAttempts
        /\ \A k \in 1..Len(responses[i]) : IsAbort(responses[i][k])
        /\ attemptNumber[i] = MaxAttempts

\* C17: whenever waitForNewPage() has returned, the value is a record with a
\* reject field and nothing else; a resolve outcome of the script has led to
\* the race, never to a return of its own; and {reject: null} is returned only
\* when the race was entered and the new-content observation has completed.
C17_ReturnsRejectOnly ==
    \A i \in Inv : IsWaitForNewPage(i) =>
        /\ result[i].kind = "return" =>
              /\ DOMAIN result[i].value = {"reject"}
              /\ result[i].value.reject = Null =>
                    /\ waitForNewContentPromise[i] = "resolved"
                    /\ timer[i] # NoTimer
              /\ result[i].value.reject # Null =>
                    /\ responses[i][1].kind = "return"
                    /\ "reject" \in DOMAIN responses[i][1].value
                    /\ result[i].value.reject = responses[i][1].value.reject
        /\ ( /\ Len(responses[i]) = 1
             /\ responses[i][1].kind = "return"
             /\ "resolve" \in DOMAIN responses[i][1].value )
           => /\ timer[i] # NoTimer
              /\ pc[i] = "done" => (result[i] = Returned([reject |-> Null]) \/ IsTimeout(result[i]))

C17_Witness ==
    \E i \in Inv, j \in Inv :
        /\ IsWaitForNewPage(i) /\ order[i] = <<"script", "content">>
        /\ responses[i][1] = Returned([resolve |-> Str("done")])
        /\ result[i] = Returned([reject |-> Null])
        /\ IsWaitForNewPage(j)
        /\ result[j] = Returned([reject |-> Obj("script error")])

HasCode(i) == cmd[i] \in {"tabs.run", "tabs.wait", "tabs.waitForNewPage"}

CodeMessages == {"tabs.run(): invalid argument 'code'", "tabs.wait(): invalid argument 'code'"}

IdMessages == {"tabs.run(): invalid argument 'id'", "tabs.wait(): invalid argument 'id'"}

\* C18: run(), wait() and waitForNewPage() called with the id of a tracked tab
\* and a code that is not a string have failed with IllegalArgument for code
\* without a runContentScript call, a waitForNewContent call, an attempt or a
\* timer; called with an invalid id as well, the error is the one for id.
C18_InvalidCodeRejected ==
    \A i \in Inv : (HasCode(i) /\ TypeOf(params[i].code) # "string") =>
        /\ pc[i] = "done"
        /\ IsIllegalArgument(result[i])
        /\ result[i].value.message \in (IF InvalidAtCall(i) THEN IdMessages ELSE CodeMessages)
        /\ \A k \in 1..Len(calls[i]) : calls[i][k].method = "hasTab"
        /\ Len(calls[i]) = (IF TypeOf(params[i].id) = "string" THEN 1 ELSE 0)
        /\ responses[i] = <<>>
        /\ waitForNewContentPromise[i] = "none"
        /\ timer[i] = NoTimer
        /\ attemptNumber[i] = 0 /\ waitMetadata[i].waitBeginTime = -1

C18_Witness ==
    \E i \in Inv, j \in Inv :
        /\ cmd[i] = "tabs.waitForNewPage" /\ ~InvalidAtCall(i)
        /\ params[i].code = Undefined
        /\ result[i] = Thrown(illegalArgumentError("tabs.run(): invalid argument 'code'"))
        /\ cmd[j] = "tabs.wait" /\ InvalidAtCall(j)
        /\ params[j].code = Undefined
        /\ result[j] = Thrown(illegalArgumentError("tabs.wait(): invalid argument 'id'"))

MethodCalls(i, m) == SelectSeq(calls[i], LAMBDA c : c.method = m)

\* C19: a waitForNewPage() invocation that passed validation has called
\* runContentScript once and waitForNewContent once, however the script settled
\* (an abort included), and has awaited one settlement of the script at most;
\* once it has failed with NewPageWaitTimeout no step, a later arrival of new
\* content included, changes its result or makes it call the tab manager again.
C19_OnceEachAndTimeoutFinal ==
    /\ [](\A i \in Inv : (IsWaitForNewPage(i) /\ PassedValidation(i)) =>
            /\ Len(MethodCalls(i, "runContentScript")) = 1
            /\ Len(MethodCalls(i, "waitForNewContent")) = 1
            /\ Len(calls[i]) = 3
            /\ Len(responses[i]) <= 1)
    /\ [][\A i \in Inv : (IsWaitForNewPage(i) /\ IsTimeout(result[i])) =>
            /\ result'[i] = result[i]
            /\ calls'[i] = calls[i]
            /\ pc'[i] = "done"]_vars

C19_Witness ==
    \E i \in Inv :
        /\ IsWaitForNewPage(i) /\ IsTimeout(result[i])
        /\ IsAbort(responses[i][1])
        /\ order[i] = <<"script", "timer", "content">>
        /\ waitForNewContentPromise[i] = "resolved"
        /\ Len(MethodCalls(i, "runContentScript")) = 1

BothWait(i, j) == i # j /\ cmd[i] = "tabs.wait" /\ cmd[j] = "tabs.wait"

\* C20: of two wait() invocations running at once, on one tab or on two, each
\* numbers its attempts by its own aborts and stamps them with its own
\* waitBeginTime, and a settlement of one's script (an abort and the retry it
\* starts included) leaves the other's attempt number, waitBeginTime, calls,
\* position and result as they were.
C20_WaitsIndependent ==
    /\ [](\A i \in Inv, j \in Inv : (BothWait(i, j) /\ pc[i] = "awaitAttempt") =>
            LET last == calls[i][Len(calls[i])]
            IN  /\ attemptNumber[i] = Aborts(i)
                /\ last.metadata.attemptNumber = Aborts(i)
                /\ last.metadata.waitBeginTime = waitMetadata[i].waitBeginTime
                /\ last.id = params[i].id)
    /\ [][\A i \in Inv, j \in Inv : (BothWait(i, j) /\ responses'[j] # responses[j]) =>
            /\ attemptNumber'[i] = attemptNumber[i]
            /\ waitMetadata'[i] = waitMetadata[i]
            /\ calls'[i] = calls[i]
            /\ pc'[i] = pc[i]
            /\ result'[i] = result[i]]_vars

C20_Witness ==
    \E i \in Inv, j \in Inv :
        /\ BothWait(i, j) /\ params[i].id = params[j].id
        /\ pc[i] = "awaitAttempt" /\ pc[j] = "awaitAttempt"
        /\ attemptNumber[i] = 2 /\ attemptNumber[j] = 1
        /\ waitMetadata[i].waitBeginTime < waitMetadata[j].waitBeginTime
        /\ calls[i][Len(calls[i])].metadata.runBeginTime > calls[j][Len(calls[j])].metadata.runBeginTime

====
